---- MODULE Spec2Model ----
(***************************************************************************)
(* Model of scripts/cleaning-data.py: clean_data(input_file, output_file). *)
(* The function is a straight-line pipeline over a pandas DataFrame; each  *)
(* numbered step of the function is one action, the DataFrame operations   *)
(* it calls are operators on sequences of rows.                            *)
(***************************************************************************)
EXTENDS Integers, Sequences, FiniteSets, TLC

(* ----------------------------- bounds ---------------------------------- *)

\* The longest input table (data lines of the CSV file).
MaxRows == 3

\* The largest integer a numeric text of the model denotes ("0" .. "9").
MaxNum == 9

(* ----------------------------- columns --------------------------------- *)

numeric_columns == <<"Price Per Unit", "Quantity", "Total Spent">>

essential_columns == <<"Transaction Date", "Price Per Unit", "Quantity", "Item">>

contextual_columns == <<"Location", "Payment Method">>

values_to_treat_as_null == {"", " ", "UNKNOWN", "ERROR"}

Columns ==
    {"Transaction Date", "Price Per Unit", "Quantity", "Item",
     "Total Spent", "Location", "Payment Method"}

Range(f) == {f[i] : i \in DOMAIN f}

(* ------------------------------ cells ---------------------------------- *)
(* A DataFrame cell.  k is the kind of value: "nan" is the missing marker  *)
(* (NaN, NaT), "num" a finite number n, "inf" the float infinity, "str" a  *)
(* Python string s, "date" a Timestamp (n = yyyymmdd).                     *)

NaN == [k |-> "nan", n |-> 0, s |-> ""]

Inf == [k |-> "inf", n |-> 0, s |-> ""]

Num(n) == [k |-> "num", n |-> n, s |-> ""]

Str(s) == [k |-> "str", n |-> 0, s |-> s]

Date(d) == [k |-> "date", n |-> d, s |-> ""]

(* --------------------------- text of cells ----------------------------- *)

\* Strings pandas.read_csv reads as NaN by default.
NaStrings == {"", "NA", "nan", "NULL"}

IntText(n) == ToString(n)

FloatText(n) == ToString(n) \o ".0"

IntTexts == {IntText(n) : n \in 0..MaxNum}

FloatTexts == {FloatText(n) : n \in 0..MaxNum}

\* The strings the numeric parsers accept.
NumTexts == IntTexts \cup FloatTexts \cup {"inf"}

ParseNum(s) ==
    IF s = "inf" THEN Inf
    ELSE IF s \in IntTexts THEN Num(CHOOSE n \in 0..MaxNum : IntText(n) = s)
    ELSE Num(CHOOSE n \in 0..MaxNum : FloatText(n) = s)

\* The dates of the model, as yyyymmdd.
Dates == {20230101, 20231231}

Pad2(n) == IF n < 10 THEN "0" \o ToString(n) ELSE ToString(n)

\* The ISO text YYYY-MM-DD of a date.
IsoText(d) ==
    ToString(d \div 10000) \o "-" \o Pad2((d \div 100) % 100) \o "-" \o Pad2(d % 100)

\* The strings to_datetime parses.
DateTexts == {IsoText(d) : d \in Dates}

ParseDate(s) == CHOOSE d \in Dates : IsoText(d) = s

(* ------------------------- pandas.read_csv ----------------------------- *)
(* A CSV file is a sequence of rows of strings.  read_csv decides a type   *)
(* per column: a column whose cells are all numbers or NA strings is       *)
(* numeric (int64 when every cell is an integer, float64 otherwise), any   *)
(* other column is an object column of strings; NA strings become NaN.     *)

CsvColumn(csv, c) == [i \in 1..Len(csv) |-> csv[i][c]]

InferDtype(cells) ==
    IF Len(cells) = 0 THEN "object"
    ELSE IF \A i \in 1..Len(cells) : cells[i] \in NaStrings \cup NumTexts
    THEN IF \A i \in 1..Len(cells) : cells[i] \in IntTexts
         THEN "int64" ELSE "float64"
    ELSE "object"

ReadCell(s, dtype) ==
    IF s \in NaStrings THEN NaN
    ELSE IF dtype = "object" THEN Str(s)
    ELSE ParseNum(s)

ReadCsvDtypes(csv) == [c \in Columns |-> InferDtype(CsvColumn(csv, c))]

ReadCsv(csv) ==
    LET d == ReadCsvDtypes(csv)
    IN [i \in 1..Len(csv) |-> [c \in Columns |-> ReadCell(csv[i][c], d[c])]]

(* ------------------ step 1: pd.to_numeric, pd.to_datetime -------------- *)

\* errors='coerce': what does not parse becomes NaN.
ToNumericCell(v) ==
    IF v.k = "str"
    THEN IF v.s \in NumTexts THEN ParseNum(v.s) ELSE NaN
    ELSE v

ToNumericDtype(t, c, dtype) ==
    IF dtype \in {"int64", "float64"} THEN dtype
    ELSE IF \A i \in 1..Len(t) : t[i][c].k = "str" /\ t[i][c].s \in IntTexts
    THEN "int64" ELSE "float64"

\* errors='coerce': what does not parse becomes NaT.
ToDatetimeCell(v) ==
    IF v.k = "str" /\ v.s \in DateTexts THEN Date(ParseDate(v.s))
    ELSE IF v.k = "date" THEN v
    ELSE NaN

AdjustTypes(t) ==
    [i \in 1..Len(t) |->
        [c \in Columns |->
            IF c \in Range(numeric_columns) THEN ToNumericCell(t[i][c])
            ELSE IF c = "Transaction Date" THEN ToDatetimeCell(t[i][c])
            ELSE t[i][c]]]

AdjustDtypes(t, d) ==
    [c \in Columns |->
        IF c \in Range(numeric_columns) THEN ToNumericDtype(t, c, d[c])
        ELSE IF c = "Transaction Date" THEN "datetime64"
        ELSE d[c]]

(* ------------------ step 2: df_clean.replace(..., np.nan) -------------- *)

ReplaceCell(v) ==
    IF v.k = "str" /\ v.s \in values_to_treat_as_null THEN NaN ELSE v

Replace(t) == [i \in 1..Len(t) |-> [c \in Columns |-> ReplaceCell(t[i][c])]]

(* ------------------ step 3: dropna, mode, fillna ----------------------- *)

IsNull(v) == v.k = "nan"

HasEssential(r) == \A c \in Range(essential_columns) : ~IsNull(r[c])

HasSomeEssential(r) == \E c \in Range(essential_columns) : ~IsNull(r[c])

\* dropna(how='all'): only a row without any essential value goes.
DropNaHowAll(t) == SelectSeq(t, HasSomeEssential)

DropNa(t) == SelectSeq(t, HasEssential)

\* How often value v occurs in column c of t.
Count(t, c, v) == Cardinality({i \in 1..Len(t) : t[i][c] = v})

\* The non-missing values of column c that occur most often.
MostFrequent(t, c) ==
    LET vals == {t[i][c] : i \in 1..Len(t)} \ {NaN}
    IN {v \in vals : \A w \in vals : Count(t, c, w) <= Count(t, c, v)}

\* The order of Python strings (by code point) on the texts of the model.
TextOrder ==
    <<" ", "Card", "Cash", "Coffee", "ERROR", "In-store", "Takeaway", "Tea",
      "UNKNOWN", "free">>

SortKey(v) == CHOOSE j \in 1..Len(TextOrder) : TextOrder[j] = v.s

\* The row at which value v first occurs in column c of t.
FirstSeen(t, c, v) == CHOOSE i \in 1..Len(t) : t[i][c] = v /\ \A j \in 1..(i - 1) : t[j][c] # v

\* The most frequent value met first in row order.
ModeFirstSeen(t, c) ==
    LET modes == MostFrequent(t, c)
    IN CHOOSE v \in modes : \A w \in modes : FirstSeen(t, c, v) <= FirstSeen(t, c, w)

\* Series.mode() returns the most frequent values sorted; [0] is the least.
ModeZero(t, c) ==
    LET modes == MostFrequent(t, c)
    IN CHOOSE v \in modes : \A w \in modes : SortKey(v) <= SortKey(w)

\* fillna whose result is not assigned back.
FillNaDiscarded(t, c, value) == t

FillNa(t, c, value) ==
    [i \in 1..Len(t) |->
        [t[i] EXCEPT ![c] = IF IsNull(t[i][c]) THEN value ELSE t[i][c]]]

(* ------------------ Total Spent = Quantity * Price Per Unit ------------ *)

\* Multiplication of float64/int64 values: inf * 0 is NaN.
Mul(a, b) ==
    IF IsNull(a) \/ IsNull(b) THEN NaN
    ELSE IF a.k = "inf" \/ b.k = "inf"
    THEN IF (a.k = "num" /\ a.n = 0) \/ (b.k = "num" /\ b.n = 0) THEN NaN ELSE Inf
    ELSE Num(a.n * b.n)

Recalculate(t) ==
    [i \in 1..Len(t) |->
        [t[i] EXCEPT !["Total Spent"] = Mul(t[i]["Quantity"], t[i]["Price Per Unit"])]]

RecalculateDtypes(d) ==
    [d EXCEPT !["Total Spent"] =
        IF d["Quantity"] = "int64" /\ d["Price Per Unit"] = "int64"
        THEN "int64" ELSE "float64"]

(* ------------------ step 4: duplicated, drop_duplicates ---------------- *)

\* duplicated(): row j repeats an earlier row (keep='first').
Duplicated(t, j) == \E i \in 1..(j - 1) : t[i] = t[j]

\* duplicated(keep=False): every row of a group of equal rows counts.
NumDuplicatesKeepFalse(t) ==
    Cardinality({j \in 1..Len(t) : \E i \in 1..Len(t) : i # j /\ t[i] = t[j]})

NumDuplicates(t) == Cardinality({j \in 1..Len(t) : Duplicated(t, j)})

RECURSIVE DropFrom(_, _)
DropFrom(t, j) ==
    IF j > Len(t) THEN <<>>
    ELSE IF Duplicated(t, j) THEN DropFrom(t, j + 1)
    ELSE <<t[j]>> \o DropFrom(t, j + 1)

RECURSIVE DropLastFrom(_, _)
DropLastFrom(t, j) ==
    IF j > Len(t) THEN <<>>
    ELSE IF \E i \in (j + 1)..Len(t) : t[i] = t[j] THEN DropLastFrom(t, j + 1)
    ELSE <<t[j]>> \o DropLastFrom(t, j + 1)

\* drop_duplicates(keep='last').
DropDuplicatesKeepLast(t) == DropLastFrom(t, 1)

\* drop_duplicates without inplace=True: the result is thrown away.
DropDuplicatesNotInPlace(t) == t

DropDuplicates(t) == DropFrom(t, 1)

(* ------------------ step 5: to_csv(index=False) ------------------------ *)

\* A Timestamp at midnight as to_csv writes it.
RenderDate(d) == IsoText(d)

RenderNum(n, dtype) == IF dtype = "int64" THEN IntText(n) ELSE FloatText(n)

RenderCell(v, dtype) ==
    CASE v.k = "nan" -> ""
      [] v.k = "str" -> v.s
      [] v.k = "date" -> RenderDate(v.n)
      [] v.k = "inf" -> "inf"
      [] v.k = "num" -> RenderNum(v.n, dtype)

ToCsv(t, d) == [i \in 1..Len(t) |-> [c \in Columns |-> RenderCell(t[i][c], d[c])]]

(* ----------------------------- inputs ---------------------------------- *)

CsvRow(date, price, qty, item, total, loc, pay) ==
    [c \in Columns |->
        CASE c = "Transaction Date" -> date
          [] c = "Price Per Unit" -> price
          [] c = "Quantity" -> qty
          [] c = "Item" -> item
          [] c = "Total Spent" -> total
          [] c = "Location" -> loc
          [] c = "Payment Method" -> pay]

\* The data lines an input file is made of.
RawRows ==
    { CsvRow("2023-01-01", "2", "1", "Coffee", "2", "In-store", "Cash"),
      CsvRow("2023-01-01", "2", "1", "Coffee", "ERROR", "UNKNOWN", "Cash"),
      CsvRow("2023-01-01", "2", "1", "Coffee", "5", "Takeaway", ""),
      CsvRow("2023-01-01", "2", "1", "Coffee", "", "Takeaway", "Card"),
      CsvRow("2023-01-01", "free", "1", "Coffee", "2", "Takeaway", "Card"),
      CsvRow("2023-01-01", "2", "1", "UNKNOWN", "2", "Takeaway", "Card"),
      CsvRow("ERROR", "2", "1", "Coffee", "2", "In-store", "Card"),
      CsvRow("2023-12-31", "3.0", "ERROR", "", "6", "In-store", "Cash"),
      CsvRow("2023-12-31", "3.0", "2", " ", "6", "Takeaway", "Cash"),
      CsvRow("2023-12-31", "3.0", "2", "ERROR", "6", "In-store", "Card"),
      CsvRow("2023-12-31", "inf", "0", "Tea", "0", "In-store", "UNKNOWN") }

Tables == UNION {[1..n -> RawRows] : n \in 0..MaxRows}

\* What the input path names: no file, a file that cannot be read, a CSV file.
InputFiles ==
    {[status |-> "not_found", rows |-> <<>>], [status |-> "unreadable", rows |-> <<>>]}
    \cup {[status |-> "ok", rows |-> t] : t \in Tables}

NoFile == [written |-> FALSE, rows |-> <<>>]

NoMode == [c \in Range(contextual_columns) |-> NaN]

NoDtypes == [c \in Columns |-> "object"]

(* ------------------------------ state ---------------------------------- *)

VARIABLES
    input_file,      \* what input_file names
    output_file,     \* what output_file names
    pc,              \* the step clean_data is at
    df,              \* the table read_csv returned
    df_clean,        \* the table being cleaned
    dtypes,          \* the dtype of each column of df_clean
    initial_rows,    \* len(df_clean) before dropna
    column,          \* index of the contextual column being filled
    mode,            \* the fill value of each contextual column
    num_duplicates,  \* duplicated().sum()
    console,         \* the messages printed
    run,             \* 1: the run on the input, 2: the run on its own output
    first_output     \* the file the first run wrote

vars ==
    <<input_file, output_file, pc, df, df_clean, dtypes, initial_rows, column,
      mode, num_duplicates, console, run, first_output>>

Init ==
    /\ input_file \in InputFiles
    /\ output_file = NoFile
    /\ pc = "load"
    /\ df = <<>>
    /\ df_clean = <<>>
    /\ dtypes = NoDtypes
    /\ initial_rows = 0
    /\ column = 1
    /\ mode = NoMode
    /\ num_duplicates = 0
    /\ console = <<>>
    /\ run = 1
    /\ first_output = NoFile

(* ----------------------------- clean_data ------------------------------ *)

\* Load without the return of the except branch.
LoadNoReturn ==
    /\ pc = "load"
    /\ IF input_file.status = "not_found"
       THEN /\ console' = Append(console, "not found")
            /\ pc' = "types"
            /\ UNCHANGED <<df, df_clean, dtypes>>
       ELSE IF input_file.status = "unreadable"
       THEN /\ pc' = "fault"
            /\ UNCHANGED <<console, df, df_clean, dtypes>>
       ELSE /\ df' = ReadCsv(input_file.rows)
            /\ df_clean' = ReadCsv(input_file.rows)
            /\ dtypes' = ReadCsvDtypes(input_file.rows)
            /\ console' = Append(console, "loaded")
            /\ pc' = "types"
    /\ UNCHANGED <<input_file, output_file, initial_rows, column, mode,
                   num_duplicates, run, first_output>>

\* read_csv; FileNotFoundError is reported, any other error propagates.
Load ==
    /\ pc = "load"
    /\ IF input_file.status = "not_found"
       THEN /\ console' = Append(console, "not found")
            /\ pc' = "done"
            /\ UNCHANGED <<df, df_clean, dtypes>>
       ELSE IF input_file.status = "unreadable"
       THEN /\ pc' = "fault"
            /\ UNCHANGED <<console, df, df_clean, dtypes>>
       ELSE /\ df' = ReadCsv(input_file.rows)
            /\ df_clean' = ReadCsv(input_file.rows)
            /\ dtypes' = ReadCsvDtypes(input_file.rows)
            /\ console' = Append(console, "loaded")
            /\ pc' = "types"
    /\ UNCHANGED <<input_file, output_file, initial_rows, column, mode,
                   num_duplicates, run, first_output>>

StepOne ==
    /\ pc = "types"
    /\ df_clean' = AdjustTypes(df_clean)
    /\ dtypes' = AdjustDtypes(df_clean, dtypes)
    /\ console' = Append(console, "types adjusted")
    /\ pc' = "nulls"
    /\ UNCHANGED <<input_file, output_file, df, initial_rows, column, mode,
                   num_duplicates, run, first_output>>

StepTwo ==
    /\ pc = "nulls"
    /\ df_clean' = Replace(df_clean)
    /\ console' = Append(console, "standardized")
    /\ pc' = "drop"
    /\ UNCHANGED <<input_file, output_file, df, dtypes, initial_rows, column,
                   mode, num_duplicates, run, first_output>>

DropEssential ==
    /\ pc = "drop"
    /\ initial_rows' = Len(df_clean)
    /\ df_clean' = DropNa(df_clean)
    /\ console' = Append(console, "removed")
    /\ column' = 1
    /\ pc' = "fill"
    /\ UNCHANGED <<input_file, output_file, df, dtypes, mode, num_duplicates,
                   run, first_output>>

\* The mode taken of the table as loaded, df, instead of df_clean.
ModeTableAsLoaded == df

\* The table whose column the mode is taken of.
ModeTable == df_clean

\* One iteration of the loop over contextual_columns; mode()[0] of a column
\* without a value raises KeyError, which nothing catches.
FillContextual ==
    /\ pc = "fill"
    /\ LET c == contextual_columns[column]
       IN IF MostFrequent(ModeTable, c) = {}
          THEN /\ pc' = "fault"
               /\ UNCHANGED <<df_clean, mode, column, console>>
          ELSE /\ mode' = [mode EXCEPT ![c] = ModeZero(ModeTable, c)]
               /\ df_clean' = FillNa(df_clean, c, ModeZero(ModeTable, c))
               /\ console' = Append(console, "filled")
               /\ IF column < Len(contextual_columns)
                  THEN column' = column + 1 /\ pc' = "fill"
                  ELSE column' = column /\ pc' = "recalc"
    /\ UNCHANGED <<input_file, output_file, df, dtypes, initial_rows,
                   num_duplicates, run, first_output>>

RecalculateTotal ==
    /\ pc = "recalc"
    /\ df_clean' = Recalculate(df_clean)
    /\ dtypes' = RecalculateDtypes(dtypes)
    /\ console' = Append(console, "recalculated")
    /\ pc' = "dedup"
    /\ UNCHANGED <<input_file, output_file, df, initial_rows, column, mode,
                   num_duplicates, run, first_output>>

StepFour ==
    /\ pc = "dedup"
    /\ num_duplicates' = NumDuplicates(df_clean)
    /\ IF NumDuplicates(df_clean) > 0
       THEN /\ df_clean' = DropDuplicates(df_clean)
            /\ console' = Append(console, "duplicates removed")
       ELSE /\ df_clean' = df_clean
            /\ console' = Append(console, "no duplicates")
    /\ pc' = "save"
    /\ UNCHANGED <<input_file, output_file, df, dtypes, initial_rows, column,
                   mode, run, first_output>>

\* to_csv inside try/except Exception: a failure to write is reported.
Save ==
    /\ pc = "save"
    /\ \E writable \in BOOLEAN :
          IF writable
          THEN /\ output_file' = [written |-> TRUE, rows |-> ToCsv(df_clean, dtypes)]
               /\ console' = Append(console, "saved")
          ELSE /\ output_file' = output_file
               /\ console' = Append(console, "error saving")
    /\ pc' = "done"
    /\ UNCHANGED <<input_file, df, df_clean, dtypes, initial_rows, column, mode,
                   num_duplicates, run, first_output>>

\* clean_data called again, on the file the first call wrote.
Rerun ==
    /\ pc = "done"
    /\ run = 1
    /\ output_file.written
    /\ input_file' = [status |-> "ok", rows |-> output_file.rows]
    /\ first_output' = output_file
    /\ output_file' = NoFile
    /\ run' = 2
    /\ pc' = "load"
    /\ df' = <<>>
    /\ df_clean' = <<>>
    /\ dtypes' = NoDtypes
    /\ initial_rows' = 0
    /\ column' = 1
    /\ mode' = NoMode
    /\ num_duplicates' = 0
    /\ console' = <<>>

Next ==
    \/ Load
    \/ StepOne
    \/ StepTwo
    \/ DropEssential
    \/ FillContextual
    \/ RecalculateTotal
    \/ StepFour
    \/ Save
    \/ Rerun

Spec == Init /\ [][Next]_vars

(* ------------------------------ properties ----------------------------- *)

\* The loaded table after type normalization and null standardization.
Normalized == Replace(AdjustTypes(df))

EssentialComplete(r) ==
    /\ r["Transaction Date"] # NaN
    /\ r["Price Per Unit"] # NaN
    /\ r["Quantity"] # NaN
    /\ r["Item"] # NaN

\* The rows that survive the essential-column drop, before any fill.
Surviving == SelectSeq(Normalized, EssentialComplete)

\* The surviving rows filled and recalculated: the table the Deduplicator gets.
BeforeDedup ==
    Recalculate(FillNa(FillNa(Surviving, "Location", mode["Location"]),
                       "Payment Method", mode["Payment Method"]))

\* df_clean is the table handed to the Writer.
Handed == pc = "save" \/ (pc = "done" /\ input_file.status = "ok")

Contextual == Range(contextual_columns)

\* C1: every row of the table handed to the Writer, and every line written,
\* has a value in each of Transaction Date, Price Per Unit, Quantity and Item;
\* no written line has an unparseable price or a sentinel as Item.
C1_EssentialComplete ==
    /\ Handed => \A i \in 1..Len(df_clean) : EssentialComplete(df_clean[i])
    /\ output_file.written =>
          \A i \in 1..Len(output_file.rows) :
              LET r == output_file.rows[i]
              IN /\ r["Transaction Date"] \in DateTexts
                 /\ r["Price Per Unit"] \in NumTexts
                 /\ r["Quantity"] \in NumTexts
                 /\ r["Item"] \notin values_to_treat_as_null

\* A table goes to the Writer although the input held a row with the price
\* "free" and a row whose Item is a sentinel.
C1_Witness ==
    /\ pc = "save"
    /\ run = 1
    /\ Len(df_clean) > 0
    /\ \E i \in 1..Len(input_file.rows) : input_file.rows[i]["Price Per Unit"] = "free"
    /\ \E i \in 1..Len(input_file.rows) :
          input_file.rows[i]["Item"] \in values_to_treat_as_null

\* C2: after the fill no Location or Payment Method cell is missing, in the
\* table and in the file written; right after the fill every cell that was
\* missing after the drop holds the column's mode and every other cell is as
\* it was.
C2_ContextualComplete ==
    /\ pc \in {"recalc", "dedup", "save", "done"} =>
          \A i \in 1..Len(df_clean) : \A c \in Contextual : df_clean[i][c] # NaN
    /\ pc = "recalc" =>
          LET t == Surviving
          IN /\ Len(df_clean) = Len(t)
             /\ \A i \in 1..Len(df_clean) : \A c \in Contextual :
                   df_clean[i][c] = IF t[i][c] = NaN THEN mode[c] ELSE t[i][c]
    /\ output_file.written =>
          \A i \in 1..Len(output_file.rows) : \A c \in Contextual :
              output_file.rows[i][c] # ""

\* A table goes to the Writer of which a surviving row had no Location and a
\* surviving row had no Payment Method.
C2_Witness ==
    /\ pc = "save"
    /\ LET t == Surviving
       IN /\ \E i \in 1..Len(t) : t[i]["Location"] = NaN
          /\ \E i \in 1..Len(t) : t[i]["Payment Method"] = NaN

\* C3: in every row after the recalculation Total Spent is the product of
\* Quantity and Price Per Unit and is not the missing marker.
C3_TotalIsProduct ==
    pc \in {"dedup", "save", "done"} =>
        \A i \in 1..Len(df_clean) :
            /\ df_clean[i]["Total Spent"] # NaN
            /\ df_clean[i]["Total Spent"] =
                   Mul(df_clean[i]["Quantity"], df_clean[i]["Price Per Unit"])

\* What holds of Total Spent: it is the product when both factors are finite,
\* and missing exactly when one factor is infinite and the other zero.
TotalOfFiniteRows ==
    pc \in {"dedup", "save", "done"} =>
        \A i \in 1..Len(df_clean) :
            LET q == df_clean[i]["Quantity"]
                p == df_clean[i]["Price Per Unit"]
                total == df_clean[i]["Total Spent"]
            IN /\ (q.k = "num" /\ p.k = "num") => total = Num(q.n * p.n)
               /\ total = NaN <=>
                     \/ q.k = "inf" /\ p = Num(0)
                     \/ p.k = "inf" /\ q = Num(0)

FirstIndex(t, r) ==
    CHOOSE i \in 1..Len(t) : t[i] = r /\ \A j \in 1..(i - 1) : t[j] # r

\* C4: the Deduplicator's result holds every distinct cleaned row once, no two
\* of its rows are equal, and its rows stand in the order of their first
\* occurrence among the cleaned rows.
C4_FirstOccurrences ==
    pc = "save" =>
        LET t == BeforeDedup
        IN /\ \A a, b \in 1..Len(df_clean) : a # b => df_clean[a] # df_clean[b]
           /\ Range(df_clean) = Range(t)
           /\ \A a, b \in 1..Len(df_clean) :
                 a < b => FirstIndex(t, df_clean[a]) < FirstIndex(t, df_clean[b])

\* The first cleaned row came again after a different row, and was removed.
C4_Witness ==
    /\ pc = "save"
    /\ num_duplicates > 0
    /\ LET t == BeforeDedup
       IN Len(t) >= 3 /\ t[2] # t[1] /\ t[3] = t[1]

Reported == {"not found", "error saving"}

\* C6: no run ends in an unhandled fault: a run that is over has written the
\* output or has printed a failure message.
C6_Graceful ==
    /\ pc # "fault"
    /\ pc = "done" => output_file.written \/ Range(console) \cap Reported # {}

C8_RowCount ==
    Handed =>
        LET t == BeforeDedup
            n == Normalized
        IN /\ Len(df_clean) <= Len(input_file.rows)
           /\ num_duplicates =
                 Cardinality({j \in 1..Len(t) : \E i \in 1..(j - 1) : t[i] = t[j]})
           /\ Len(df_clean) =
                 Len(input_file.rows)
                   - Cardinality({i \in 1..Len(n) : ~EssentialComplete(n[i])})
                   - num_duplicates
           /\ output_file.written => Len(output_file.rows) = Len(df_clean)

\* A table goes to the Writer after a row was dropped and a duplicate removed.
C8_Witness ==
    /\ pc = "save"
    /\ num_duplicates > 0
    /\ LET n == Normalized IN \E i \in 1..Len(n) : ~EssentialComplete(n[i])

\* A line of the input whose row survives the essential-column drop.
KeptText(r) ==
    /\ r["Transaction Date"] \in DateTexts
    /\ r["Price Per Unit"] \in NumTexts
    /\ r["Quantity"] \in NumTexts
    /\ r["Item"] \notin NaStrings \cup values_to_treat_as_null

\* The input without the lines that are dropped.
KeptInput == SelectSeq(input_file.rows, KeptText)

DroppedOf(csv) == DropNa(Replace(AdjustTypes(ReadCsv(csv))))

FilledOf(csv) ==
    LET t0 == DroppedOf(csv)
        t1 == FillNa(t0, "Location", ModeZero(t0, "Location"))
    IN FillNa(t1, "Payment Method", ModeZero(t1, "Payment Method"))

\* The table clean_data hands to the Writer when the input is csv.
CleanOf(csv) == DropDuplicates(Recalculate(FilledOf(csv)))

Occurrences(t, c, v) == Cardinality({i \in 1..Len(t) : t[i][c] = v})

\* The most frequent values of column c of t.
Tied(t, c) ==
    LET vals == {t[i][c] : i \in 1..Len(t)} \ {NaN}
    IN {v \in vals : \A w \in vals : Occurrences(t, c, w) <= Occurrences(t, c, v)}

FirstRow(t, c, v) ==
    CHOOSE i \in 1..Len(t) : t[i][c] = v /\ \A j \in 1..(i - 1) : t[j][c] # v

Position(s) == CHOOSE j \in 1..Len(TextOrder) : TextOrder[j] = s

Filled == pc \in {"recalc", "dedup", "save"}

\* C10 as claimed: of several most frequent values among the surviving rows
\* the fill value is the one met first in row order.
C10_FirstEncountered ==
    Filled =>
        LET t == Surviving
        IN \A c \in Contextual :
              LET tied == Tied(t, c)
              IN Cardinality(tied) >= 2 =>
                    /\ mode[c] \in tied
                    /\ \A w \in tied : FirstRow(t, c, mode[c]) <= FirstRow(t, c, w)

\* C10: of several most frequent values among the surviving rows the fill
\* value is the least in the sort order of the values.
C10_LeastInSortOrder ==
    Filled =>
        LET t == Surviving
        IN \A c \in Contextual :
              LET tied == Tied(t, c)
              IN Cardinality(tied) >= 2 =>
                    /\ mode[c] \in tied
                    /\ \A w \in tied : Position(mode[c].s) <= Position(w.s)

\* A cell was filled in a column with two most frequent values, of which the
\* one met first is not the least.
C10_Witness ==
    /\ pc = "save"
    /\ LET t == Surviving
       IN \E c \in Contextual :
             /\ Cardinality(Tied(t, c)) >= 2
             /\ \E i \in 1..Len(t) : t[i][c] = NaN
             /\ \E w \in Tied(t, c) : FirstRow(t, c, w) < FirstRow(t, c, mode[c])

====
